---- MODULE Spec2Model ----
(***************************************************************************)
(* A model of src/pagerank.py: transition_model, sample_pagerank and       *)
(* iterate_pagerank, called on a corpus (a dict page -> set of linked      *)
(* pages) by main.                                                         *)
(*                                                                         *)
(* Pages are the integers 1..N; dict iteration order is 1, 2, ..., N.      *)
(* Python floats are modelled by exact rationals, so "sums to 1" is an     *)
(* equality here and a statement up to rounding error about the program.   *)
(***************************************************************************)
EXTENDS Integers, Sequences, FiniteSets, TLC

VARIABLES
    fn,              \* the function executing: its name in pagerank.py
    pc,              \* "call" | "loop" | "done" (returned) | "error" (raised)
    raised,          \* the exception that ended the call, "" when none
    corpus,          \* the caller's graph: page -> set of pages
    damping_factor,  \* argument, a rational <<num, den>>
    n,               \* argument of sample_pagerank
    page,            \* argument of transition_model; sample_pagerank's cursor
    sample,          \* sample_pagerank: page -> visit counter
    models,          \* sample_pagerank: page -> cached t_model, << >> is None
    i,               \* sample_pagerank: iterations of `for i in range(n)` done
    norm,            \* iterate_pagerank: its local rebinding of `corpus`
    page_rank,       \* iterate_pagerank: [num: page -> Big, den: Big]
    diffs,           \* iterate_pagerank: the list of line 121, over page_rank.den
    prev_diffs,      \* iterate_pagerank: that list one pass earlier (history)
    result,          \* transition_model, sample_pagerank: the returned mapping,
                     \* page -> rational; iterate_pagerank returns page_rank
    second           \* TRUE when main has gone on from sampling to iterating

vars == <<fn, pc, raised, corpus, damping_factor, n, page, sample, models, i,
          norm, page_rank, diffs, prev_diffs, result, second>>

----------------------------------------------------------------------------
(* Bounds of the explored inputs.                                          *)

\* transition_model and iterate_pagerank: every graph of up to MaxPages pages.
MaxPages == 3
\* iterate_pagerank also: the TreeGraphs of WidePages pages.
WidePages == 4
\* sample_pagerank: every graph of up to SamplePages pages.
SamplePages == 2
\* sample_pagerank: n ranges over -1 .. MaxN.
MaxN == 3
\* random.random() returns one of 0/RGrid, ..., (RGrid-1)/RGrid.
RGrid == 4

----------------------------------------------------------------------------
(* Exact rationals <<num, den>>, den > 0, in lowest terms.                 *)

\* the element of a set of one element. Inside ENABLED, TLC computes the
\* argument of an operator at every use of the parameter; in
\* The({e(x) : x \in {v}}) the value v is computed once.
The(S) == CHOOSE x \in S : TRUE

Abs(x) == IF x < 0 THEN -x ELSE x

RECURSIVE Gcd(_, _)
Gcd(a, b) == IF b = 0 THEN Abs(a) ELSE Gcd(Abs(b), Abs(a) % Abs(b))

Lcm(a, b) == The({(x * y) \div Gcd(x, y) : x \in {a}, y \in {b}})

Rat(a, b) ==
    LET s == IF b < 0 THEN -1 ELSE 1
        g == Gcd(a, b)
    IN  <<(s * a) \div g, (s * b) \div g>>

RInt(k) == <<k, 1>>
RAdd(x, y) == Rat(x[1] * y[2] + y[1] * x[2], x[2] * y[2])
RSub(x, y) == Rat(x[1] * y[2] - y[1] * x[2], x[2] * y[2])
RMul(x, y) == Rat(x[1] * y[1], x[2] * y[2])
\* x / y, y # 0 (callers test for the ZeroDivisionError first)
RDiv(x, y) == Rat(x[1] * y[2], x[2] * y[1])
RLess(x, y) == x[1] * y[2] < y[1] * x[2]
RLeq(x, y) == x[1] * y[2] <= y[1] * x[2]

RECURSIVE RSum(_, _)
\* sum of f[p] over p in S
RSum(f, S) ==
    IF S = {} THEN RInt(0)
    ELSE LET p == CHOOSE q \in S : TRUE IN RAdd(f[p], RSum(f, S \ {p}))

----------------------------------------------------------------------------
(* Inputs.                                                                 *)

Pages(c) == DOMAIN c
NumPages(c) == Cardinality(DOMAIN c)

\* What crawl() returns: every link is a page of the corpus, no page links to
\* itself.
GraphInvariant(c) ==
    \A p \in DOMAIN c : c[p] \subseteq DOMAIN c /\ p \notin c[p]

RECURSIVE GraphsTo(_, _)
\* the link sets of pages 1..k in the graphs of N pages
GraphsTo(N, k) ==
    IF k = 0 THEN {<< >>}
    ELSE {Append(c, links) : c \in GraphsTo(N, k - 1),
                             links \in SUBSET ((1..N) \ {k})}

\* every graph of N pages that satisfies GraphInvariant
AllGraphs(N) == GraphsTo(N, N)

RECURSIVE TreeGraphs(_)
\* the graphs of N pages in which a page links to at most one page, and to
\* one before it
TreeGraphs(N) ==
    IF N = 0 THEN {<< >>}
    ELSE {Append(c, links) : c \in TreeGraphs(N - 1),
                             links \in {{}} \cup {{q} : q \in 1..(N - 1)}}

\* line 6: DAMPING = 0.85, the damping factor main passes
DAMPING == <<17, 20>>
\* further damping factors inside (0,1)
Dampings == {<<1, 2>>, <<3, 4>>}
\* damping factors outside (0,1)
BadDampings == {<<0, 1>>, <<1, 1>>, <<3, 2>>}

ValidDamping(d) == RLess(RInt(0), d) /\ RLess(d, RInt(1))

----------------------------------------------------------------------------
(* transition_model                                                        *)

\* transition_model with the two terms of line 64 exclusive, not added
transition_model_exclusive(c, p, d) ==
    LET links == c[p]
        num_pages == NumPages(c)
        num_links == Cardinality(links)
    IN  IF num_links = 0
        THEN [q \in DOMAIN c |-> RDiv(RInt(1), RInt(num_pages))]
        ELSE [q \in DOMAIN c |->
                IF q \in links THEN RDiv(d, RInt(num_links))
                ELSE RDiv(RSub(RInt(1), d), RInt(num_pages))]

\* lines 60-64; a page that is no key of corpus raises KeyError at line 60
transition_model(c, p, d) ==
    LET links == c[p]
        num_pages == NumPages(c)
        num_links == Cardinality(links)
    IN  IF num_links = 0
        THEN [q \in DOMAIN c |-> RDiv(RInt(1), RInt(num_pages))]
        ELSE [q \in DOMAIN c |->
                RAdd(IF q \in links THEN RDiv(d, RInt(num_links)) ELSE RInt(0),
                     RDiv(RSub(RInt(1), d), RInt(num_pages)))]

----------------------------------------------------------------------------
(* sample_pagerank                                                         *)

RECURSIVE Threshold(_, _)
\* `threshold` when the loop of lines 79-81 reaches page p: the sum of the
\* entries before p
Threshold(tm, p) ==
    IF p = 1 THEN RInt(0) ELSE RAdd(Threshold(tm, p - 1), tm[p - 1])

\* lines 76-82: page -> [threshold, threshold + probability]
transform_model(tm) ==
    [p \in DOMAIN tm |-> <<Threshold(tm, p), RAdd(Threshold(tm, p), tm[p])>>]

Min(S) == CHOOSE x \in S : \A y \in S : x <= y

\* lines 92-95: the first page whose range holds r; the cursor stays when no
\* range holds r
Draw(model, r, cur) ==
    LET hits == {p \in DOMAIN model :
                    RLeq(model[p][1], r) /\ RLess(r, model[p][2])}
    IN  IF hits = {} THEN cur ELSE Min(hits)

\* the values random.random() takes here
RValues == {Rat(k, RGrid) : k \in 0..(RGrid - 1)}

----------------------------------------------------------------------------
(* Naturals of any size: little-endian sequences of limbs in 0..Base-1     *)
(* with no leading zero limb (zero is << >>). iterate_pagerank's ranks     *)
(* need them: their denominators grow with every pass of the loop.         *)
(* Sums and products are formed limb by limb and carried once.             *)

Base == 10^4

RECURSIVE BigOf(_)
BigOf(k) == IF k = 0 THEN << >> ELSE <<k % Base>> \o BigOf(k \div Base)

RECURSIVE BigTrim(_)
BigTrim(a) ==
    The({IF x = << >> \/ x[Len(x)] # 0 THEN x
         ELSE BigTrim(SubSeq(x, 1, Len(x) - 1)) : x \in {a}})

Limb(a, k) == IF k <= Len(a) THEN a[k] ELSE 0

Max(x, y) == IF x < y THEN y ELSE x

RECURSIVE CarryFrom(_, _, _)
\* the limbs of v from k on with the carries passed upward, then the carry
\* left over (negative when v stands for a negative number)
CarryFrom(v, k, carry) ==
    IF k > Len(v)
    THEN <<carry>>
    ELSE The({<<x % Base>> \o CarryFrom(v, k + 1, x \div Base)
              : x \in {v[k] + carry}})

\* v: a sequence of integers standing for the sum of v[k] * Base^(k-1)
Resolve(v) ==
    The({LET top == s[Len(s)]
         IN  [neg |-> top < 0,
              mag |-> IF top < 0 THEN << >>
                      ELSE BigTrim(SubSeq(s, 1, Len(s) - 1) \o BigOf(top))]
         : s \in {The({CarryFrom(x, 1, 0) : x \in {v}})}})

Carry(v) == Resolve(v).mag

\* acc + m * a, limb by limb, not carried; Len(a) <= Len(acc)
Axpy(acc, a, m) ==
    The({[k \in 1..Len(x) |-> x[k] + c * Limb(y, k)] \o << >>
         : x \in {acc}, y \in {a}, c \in {m}})

Zeros(w) == [k \in 1..w |-> 0] \o << >>

BigAdd(a, b) ==
    The({Carry(Axpy(Axpy(Zeros(Max(Len(x), Len(y))), x, 1), y, 1))
         : x \in {a}, y \in {b}})

\* a * m for a machine integer m >= 0
BigMulSmall(a, m) == The({Carry(Axpy(Zeros(Len(x)), x, m)) : x \in {a}})

RECURSIVE LessFrom(_, _, _)
\* a < b on limbs k, k-1, ..., 1, for a and b of one length
LessFrom(a, b, k) ==
    IF k = 0 THEN FALSE
    ELSE IF a[k] # b[k] THEN a[k] < b[k]
    ELSE LessFrom(a, b, k - 1)

BigLess(a, b) ==
    \E x \in {a}, y \in {b} :
        IF Len(x) # Len(y) THEN Len(x) < Len(y) ELSE LessFrom(x, y, Len(x))

BigLeq(a, b) == ~BigLess(b, a)

\* |m * a - b|
BigDist(a, m, b) ==
    The({LET w == Max(Len(x) + 1, Len(y))
         IN  The({IF r.neg THEN Carry(Axpy(Axpy(Zeros(w), y, 1), x, -m))
                  ELSE r.mag
                  : r \in {Resolve(Axpy(Axpy(Zeros(w), x, m), y, -1))}})
         : x \in {a}, y \in {b}})

RECURSIVE SumLimbs(_, _, _)
SumLimbs(f, S, w) ==
    IF S = {} THEN Zeros(w)
    ELSE LET p == CHOOSE q \in S : TRUE
         IN  Axpy(SumLimbs(f, S \ {p}, w), f[p], 1)

RECURSIVE MaxLen(_, _)
MaxLen(f, S) ==
    IF S = {} THEN 0
    ELSE LET p == CHOOSE q \in S : TRUE
         IN  Max(Len(f[p]), MaxLen(f, S \ {p}))

\* sum of f[p] over p in S
BigSum(f, S) == Carry(SumLimbs(f, S, MaxLen(f, S)))

RECURSIVE BigMax(_, _)
\* the greatest f[p] over p in S, S not empty
BigMax(f, S) ==
    LET p == CHOOSE q \in S : TRUE
    IN  IF S = {p} THEN f[p]
        ELSE The({IF BigLess(m, f[p]) THEN f[p] ELSE m
                  : m \in {BigMax(f, S \ {p})}})

----------------------------------------------------------------------------
(* iterate_pagerank                                                        *)
(*                                                                         *)
(* The rank mapping of one pass is held as integer numerators over one     *)
(* common denominator: page_rank[p] = num[p] / den. A pass of the loop     *)
(* multiplies the denominator by Scale.                                    *)

\* iterate_pagerank without line 110
NormalizeNone(c) == c

\* lines 109-110: a page with no links is given links to all pages
Normalize(c) ==
    LET all_pages == DOMAIN c
    IN  [k \in DOMAIN c |-> IF Cardinality(c[k]) = 0 THEN all_pages ELSE c[k]]

RECURSIVE LcmOf(_)
LcmOf(S) ==
    IF S = {} THEN 1
    ELSE The({Lcm(x, LcmOf(S \ {x})) : x \in {CHOOSE y \in S : TRUE}})

\* the least common multiple of the len(corpus[p]) that line 119 divides by:
\* those of the pages p with some page in corpus[p]
Degrees(nrm) ==
    LcmOf({Cardinality(nrm[p]) : p \in {q \in DOMAIN nrm : nrm[q] # {}}})

\* new denominator / old denominator: the divisions of lines 119 and 120
Scale(nrm, d) == d[2] * NumPages(nrm) * Degrees(nrm)

RECURSIVE LeadPagesUndivided(_, _, _, _, _)
\* line 119 without the division by len(corpus[p])
LeadPagesUndivided(pr, nrm, L, pg, k) ==
    IF k = 0 THEN Zeros(Len(pr.den))
    ELSE LET lead_pages == LeadPagesUndivided(pr, nrm, L, pg, k - 1)
         IN  IF pg \in nrm[k]
             THEN Axpy(lead_pages, pr.num[k], L)
             ELSE lead_pages

RECURSIVE LeadPages(_, _, _, _, _)
\* lines 116-119 for `page` = pg, after the inner loop has passed pages 1..k:
\* lead_pages as a numerator over pr.den * L, L = Degrees(nrm), not carried
LeadPages(pr, nrm, L, pg, k) ==
    IF k = 0 THEN Zeros(Len(pr.den))
    ELSE LET lead_pages == LeadPages(pr, nrm, L, pg, k - 1)
         IN  IF pg \in nrm[k]
             THEN Axpy(lead_pages, pr.num[k], L \div Cardinality(nrm[k]))
             ELSE lead_pages

\* line 120 for `page` = pg, as a numerator over pr.den * Scale(nrm, d):
\* (1 - damping_factor)/num_pages + damping_factor * lead_pages
NewRank(pr, nrm, d, pg) ==
    The({LET lead_pages == LeadPages(pr, nrm, L, pg, NumPages(nrm))
         IN  Carry(Axpy(Axpy(Zeros(Len(pr.den)), pr.den, (d[2] - d[1]) * L),
                        lead_pages, d[1] * NumPages(nrm)))
         : L \in {Degrees(nrm)}})

RECURSIVE InPlaceTo(_, _, _, _)
\* one mapping updated in place, after pages 1..k: the entry of page k is
\* computed from the entries already written for the pages before it
InPlaceTo(pr, nrm, d, k) ==
    IF k = 0 THEN pr
    ELSE LET before == InPlaceTo(pr, nrm, d, k - 1)
         IN  [num |-> [pg \in DOMAIN nrm |->
                          IF pg = k THEN NewRank(before, nrm, d, pg)
                          ELSE BigMulSmall(before.num[pg], Scale(nrm, d))],
              den |-> BigMulSmall(before.den, Scale(nrm, d))]

\* the pass of lines 114-120 written into page_rank itself, with no new_pr
NewPrInPlace(pr, nrm, d) == InPlaceTo(pr, nrm, d, NumPages(nrm))

\* lines 114-120: new_pr, every entry computed from the old page_rank
NewPr(pr, nrm, d) ==
    [num |-> [pg \in DOMAIN nrm |-> NewRank(pr, nrm, d, pg)] \o << >>,
     den |-> BigMulSmall(pr.den, Scale(nrm, d))]

\* line 121: [abs(page_rank[p] - new_pr[p]) for p in corpus], over new.den
Diffs(pr, new, nrm, d) ==
    The({[p \in DOMAIN nrm |-> BigDist(pr.num[p], s, new.num[p])] \o << >>
         : s \in {Scale(nrm, d)}})

\* the convergence threshold of line 121 is 1/ThresholdDen
ThresholdDen == 1000

\* line 121: max(...) <= 0.001
Converged(ds, den) ==
    BigLeq(BigMulSmall(BigMax(ds, DOMAIN ds), ThresholdDen), den)

----------------------------------------------------------------------------
(* The calls.                                                              *)

NoRank == [num |-> << >>, den |-> << >>]

Locals ==
    /\ sample = << >> /\ models = << >> /\ i = 0
    /\ norm = << >> /\ page_rank = NoRank /\ diffs = << >> /\ prev_diffs = << >>
    /\ result = << >> /\ raised = "" /\ second = FALSE

InitTM ==
    /\ fn = "transition_model" /\ pc = "call"
    /\ corpus \in UNION {AllGraphs(N) : N \in 0..MaxPages}
    /\ damping_factor \in {DAMPING} \cup Dampings \cup BadDampings
    /\ page \in 1..(NumPages(corpus) + 1)
    /\ n = 0
    /\ Locals

InitSample ==
    /\ fn = "sample_pagerank" /\ pc = "call"
    /\ corpus \in UNION {AllGraphs(N) : N \in 0..SamplePages}
    /\ damping_factor \in {DAMPING} \cup Dampings \cup BadDampings
    /\ n \in (-1)..MaxN
    /\ page = 0
    /\ Locals

InitIterate ==
    /\ fn = "iterate_pagerank" /\ pc = "call"
    /\ \/ /\ corpus \in UNION {AllGraphs(N) : N \in 0..MaxPages}
          /\ damping_factor \in Dampings
       \/ /\ corpus \in UNION {AllGraphs(N) : N \in 0..SamplePages}
                          \cup TreeGraphs(WidePages)
          /\ damping_factor = DAMPING
    /\ n = 0
    /\ page = 0
    /\ Locals

Init == InitTM \/ InitSample \/ InitIterate

TransitionModel ==
    /\ fn = "transition_model" /\ pc = "call"
    /\ IF page \in DOMAIN corpus
       THEN /\ result' = transition_model(corpus, page, damping_factor)
            /\ pc' = "done"
            /\ UNCHANGED raised
       ELSE /\ raised' = "KeyError"
            /\ pc' = "error"
            /\ UNCHANGED result
    /\ UNCHANGED <<fn, corpus, damping_factor, n, page, sample, models, i,
                   norm, page_rank, diffs, prev_diffs, second>>

\* lines 84-86; random.choice of an empty list raises IndexError
SampleStart ==
    /\ fn = "sample_pagerank" /\ pc = "call"
    /\ IF DOMAIN corpus = {}
       THEN /\ raised' = "IndexError"
            /\ pc' = "error"
            /\ UNCHANGED <<page, sample, models>>
       ELSE /\ page' \in DOMAIN corpus
            /\ sample' = [p \in DOMAIN corpus |-> IF p = page' THEN 1 ELSE 0]
            /\ models' = [p \in DOMAIN corpus |-> << >>]
            /\ pc' = "loop"
            /\ UNCHANGED raised
    /\ UNCHANGED <<fn, corpus, damping_factor, n, i, norm, page_rank, diffs,
                   prev_diffs, result, second>>

\* lines 88-89: the cache after the body of the loop has filled it for `page`
Cached(ms, c, p, d) ==
    IF ms[p] = << >>
    THEN [ms EXCEPT ![p] = transform_model(transition_model(c, p, d))]
    ELSE ms

\* lines 87-96: one pass of `for i in range(n)`
SampleStep ==
    /\ fn = "sample_pagerank" /\ pc = "loop"
    /\ i < n
    /\ models' = Cached(models, corpus, page, damping_factor)
    /\ \E r \in RValues : page' = Draw(models'[page], r, page)
    /\ sample' = [sample EXCEPT ![page'] = @ + 1]
    /\ i' = i + 1
    /\ UNCHANGED <<fn, pc, raised, corpus, damping_factor, n, norm, page_rank,
                   diffs, prev_diffs, result, second>>

\* line 97, reached when range(n) is exhausted; value/n raises
\* ZeroDivisionError for n = 0
SampleReturn ==
    /\ fn = "sample_pagerank" /\ pc = "loop"
    /\ ~(i < n)
    /\ IF n = 0
       THEN /\ raised' = "ZeroDivisionError"
            /\ pc' = "error"
            /\ UNCHANGED result
       ELSE /\ result' = [key \in DOMAIN sample |->
                            RDiv(RInt(sample[key]), RInt(n))]
            /\ pc' = "done"
            /\ UNCHANGED raised
    /\ UNCHANGED <<fn, corpus, damping_factor, n, page, sample, models, i,
                   norm, page_rank, diffs, prev_diffs, second>>

\* lines 109-112 with line 110 writing into the caller's dict
IterStartInPlace ==
    /\ fn = "iterate_pagerank" /\ pc = "call"
    /\ corpus' = Normalize(corpus)
    /\ norm' = corpus'
    /\ page_rank' = [num |-> [p \in DOMAIN corpus |-> BigOf(1)],
                     den |-> BigOf(NumPages(corpus))]
    /\ pc' = "loop"
    /\ UNCHANGED <<fn, raised, damping_factor, n, page, sample, models,
                   i, diffs, prev_diffs, result, second>>

\* lines 109-112
IterStart ==
    /\ fn = "iterate_pagerank" /\ pc = "call"
    /\ norm' = Normalize(corpus)
    /\ page_rank' = [num |-> [p \in DOMAIN corpus |-> BigOf(1)],
                     den |-> BigOf(NumPages(corpus))]
    /\ pc' = "loop"
    /\ UNCHANGED <<fn, raised, corpus, damping_factor, n, page, sample, models,
                   i, diffs, prev_diffs, result, second>>

\* lines 113-125 without line 124: page_rank keeps its value in a pass that
\* does not break
IterRoundNoAssign ==
    /\ fn = "iterate_pagerank" /\ pc = "loop"
    /\ IF DOMAIN norm = {}
       THEN /\ raised' = "ValueError"
            /\ pc' = "error"
            /\ UNCHANGED <<page_rank, diffs, prev_diffs>>
       ELSE \E new_pr \in {NewPr(page_rank, norm, damping_factor)} :
            \E ds \in {Diffs(page_rank, new_pr, norm, damping_factor)} :
                /\ IF Converged(ds, new_pr.den)
                   THEN page_rank' = new_pr /\ pc' = "done"
                   ELSE page_rank' = page_rank /\ pc' = "loop"
                /\ diffs' = ds
                /\ prev_diffs' = diffs
                /\ UNCHANGED raised
    /\ UNCHANGED <<fn, corpus, damping_factor, n, page, sample, models, i,
                   norm, result, second>>

\* lines 113-125: one pass of `while True`, with the return that follows the
\* break; max([]) raises ValueError for a corpus with no page
IterRound ==
    /\ fn = "iterate_pagerank" /\ pc = "loop"
    /\ IF DOMAIN norm = {}
       THEN /\ raised' = "ValueError"
            /\ pc' = "error"
            /\ UNCHANGED <<page_rank, diffs, prev_diffs>>
       ELSE \E new_pr \in {NewPr(page_rank, norm, damping_factor)} :
            \E ds \in {Diffs(page_rank, new_pr, norm, damping_factor)} :
                /\ page_rank' = new_pr
                /\ diffs' = ds
                /\ prev_diffs' = diffs
                /\ pc' = IF Converged(ds, new_pr.den) THEN "done" ELSE "loop"
                /\ UNCHANGED raised
    /\ UNCHANGED <<fn, corpus, damping_factor, n, page, sample, models, i,
                   norm, result, second>>

\* main, lines 14-18: iterate_pagerank is called on the corpus sample_pagerank
\* was called on; main passes DAMPING and SAMPLES, a damping factor inside
\* (0,1) and an n >= 1
MainIterate ==
    /\ fn = "sample_pagerank" /\ pc = "done"
    /\ ValidDamping(damping_factor) /\ n >= 1
    /\ fn' = "iterate_pagerank"
    /\ pc' = "call"
    /\ second' = TRUE
    /\ page' = 0 /\ n' = 0 /\ i' = 0
    /\ sample' = << >> /\ models' = << >> /\ result' = << >>
    /\ UNCHANGED <<raised, corpus, damping_factor, norm, page_rank, diffs,
                   prev_diffs>>

Next ==
    \/ TransitionModel
    \/ SampleStart
    \/ SampleStep
    \/ SampleReturn
    \/ IterStart
    \/ IterRound
    \/ MainIterate

Spec == Init /\ [][Next]_vars

\* iterate_pagerank, once called, runs: nothing suspends its loop
FairSpec == Spec /\ WF_vars(IterStart) /\ WF_vars(IterRound)

----------------------------------------------------------------------------
(* The properties.                                                         *)

RECURSIVE IntSum(_, _)
IntSum(f, S) ==
    IF S = {} THEN 0
    ELSE LET p == CHOOSE q \in S : TRUE IN f[p] + IntSum(f, S \ {p})

Sampling == fn = "sample_pagerank"
Iterating == fn = "iterate_pagerank"
Transition == fn = "transition_model"

\* a mapping page -> rational with no negative value and values that sum to 1
Distribution(f) ==
    /\ \A q \in DOMAIN f : RLeq(RInt(0), f[q])
    /\ RSum(f, DOMAIN f) = RInt(1)

\* C1: when sample_pagerank returns for a non-empty graph, a damping factor in
\* (0,1) and n >= 1, the visit counters sum to n and the returned values sum
\* to 1.
C1_SampleSumsToOne ==
    (Sampling /\ pc = "done" /\ DOMAIN corpus # {}
        /\ ValidDamping(damping_factor) /\ n >= 1)
    => /\ IntSum(sample, DOMAIN sample) = n
       /\ RSum(result, DOMAIN result) = RInt(1)

\* C2: for a graph of one page with no links and a damping factor in (0,1),
\* sample_pagerank (n >= 1) and iterate_pagerank both return {page: 1}.
C2_SinglePage ==
    (pc = "done" /\ NumPages(corpus) = 1 /\ ValidDamping(damping_factor))
    => /\ (Sampling /\ n >= 1) => result = <<RInt(1)>>
       /\ Iterating => page_rank.num[1] = page_rank.den

\* C3: for a graph that satisfies the graph invariant, a page p of it and a
\* damping factor d in (0,1), transition_model returns a mapping over exactly
\* the pages of the graph, with value 1/N for every page when p has no links,
\* and otherwise d/L (for a page p links to, else 0) plus (1-d)/N.
C3_TransitionModel ==
    (Transition /\ pc = "done" /\ GraphInvariant(corpus)
        /\ ValidDamping(damping_factor))
    => LET N == NumPages(corpus)
           L == Cardinality(corpus[page])
           dn == damping_factor[1]
           dd == damping_factor[2]
       IN  /\ DOMAIN result = DOMAIN corpus
           /\ \A q \in DOMAIN corpus :
                IF L = 0
                THEN result[q][1] * N = result[q][2]
                ELSE result[q][1] * (dd * L * N)
                     = result[q][2] * ((IF q \in corpus[page] THEN dn * N ELSE 0)
                                       + (dd - dn) * L)

\* transition_model has returned for a page with two links among three pages
C3_Witness ==
    /\ Transition /\ pc = "done" /\ ValidDamping(damping_factor)
    /\ NumPages(corpus) = 3 /\ Cardinality(corpus[page]) = 2

\* C4: in iterate_pagerank on a non-empty graph that satisfies the graph
\* invariant, with a damping factor in (0,1), the ranks sum to 1 after line
\* 112 and after every pass of the loop, dangling pages or not.
C4_RanksSumToOne ==
    (Iterating /\ pc \in {"loop", "done"} /\ DOMAIN corpus # {}
        /\ GraphInvariant(corpus) /\ ValidDamping(damping_factor))
    => BigSum(page_rank.num, DOMAIN page_rank.num) = page_rank.den

\* two passes done, and again in the loop, on a graph with a dangling page
C4_Witness ==
    /\ Iterating /\ pc = "loop" /\ prev_diffs # << >>
    /\ NumPages(corpus) >= 3
    /\ \E p \in DOMAIN corpus : corpus[p] = {}
    /\ \E p \in DOMAIN corpus : corpus[p] # {}

\* C5 as claimed: the greatest absolute difference between old and new rank
\* of a pass is at most that of the pass before it.
C5_MaxDeltaNonIncreasing ==
    (Iterating /\ prev_diffs # << >>)
    => BigLeq(BigMax(diffs, DOMAIN diffs),
              BigMulSmall(BigMax(prev_diffs, DOMAIN prev_diffs),
                          Scale(norm, damping_factor)))

\* C5 as amended: the sum over the pages of the absolute differences between
\* old and new rank of a pass is at most that of the pass before it.
C5_SumDeltaNonIncreasing ==
    (Iterating /\ prev_diffs # << >>)
    => BigLeq(BigSum(diffs, DOMAIN diffs),
              BigMulSmall(BigSum(prev_diffs, DOMAIN prev_diffs),
                          Scale(norm, damping_factor)))

\* a pass whose greatest difference exceeds that of the pass before it
C5_Witness ==
    /\ Iterating /\ prev_diffs # << >>
    /\ damping_factor = DAMPING
    /\ BigLess(BigMulSmall(BigMax(prev_diffs, DOMAIN prev_diffs),
                           Scale(norm, damping_factor)),
               BigMax(diffs, DOMAIN diffs))

\* what a call was given breaks a precondition of the function called
PreconditionViolated ==
    \/ DOMAIN corpus = {}
    \/ (Transition \/ Sampling) /\ ~ValidDamping(damping_factor)
    \/ Transition /\ page \notin DOMAIN corpus
    \/ Sampling /\ n < 1

\* C6: a call that breaks a precondition (empty graph, page that is no key,
\* n < 1, damping factor outside (0,1)) does not return a mapping with a
\* negative value or with values that do not sum to 1.
C6_NoMalformedDistribution ==
    (PreconditionViolated /\ pc = "done")
    => /\ ~Iterating
       /\ Distribution(result)

\* the greatest difference of the last pass is within the threshold
WithinThreshold ==
    \A p \in DOMAIN diffs :
        BigLeq(BigMulSmall(diffs[p], ThresholdDen), page_rank.den)

\* C7: iterate_pagerank, called on a non-empty graph that satisfies the graph
\* invariant with a damping factor in (0,1), returns; it returns after the
\* first pass whose greatest difference is <= 0.001 and after no other pass.
C7_Terminates ==
    /\ (Iterating /\ pc = "call" /\ DOMAIN corpus # {})
           ~> (Iterating /\ pc = "done")
    /\ []((Iterating /\ pc = "done") => WithinThreshold)
    /\ []((Iterating /\ pc = "loop" /\ diffs # << >>) => ~WithinThreshold)

\* iterate_pagerank has returned after more than one pass with DAMPING
C7_Witness ==
    /\ Iterating /\ pc = "done" /\ prev_diffs # << >>
    /\ damping_factor = DAMPING /\ NumPages(corpus) >= 3

\* C8: no step of transition_model, sample_pagerank or iterate_pagerank
\* changes the caller's graph: its keys and every page's links stay as they
\* were, also when main calls the two solvers one after the other.
C8_CorpusNeverMutated == [][corpus' = corpus]_vars

\* iterate_pagerank has returned, called after sample_pagerank on a graph
\* with a dangling page: the local graph has the page's links to all pages,
\* the caller's graph has none
C8_Witness ==
    /\ Iterating /\ pc = "done" /\ second
    /\ \E p \in DOMAIN corpus : corpus[p] = {} /\ norm[p] = DOMAIN corpus

\* (1-d)/N + d * (the sum of rank(q)/outdegree(q) over the pages q whose
\* links hold p), on the ranks pr, as a numerator over pr.den * Scale(nrm, d)
C9_Recurrence(pr, nrm, d, p) ==
    LET L == Degrees(nrm)
        linking == {q \in DOMAIN nrm : p \in nrm[q]}
        shares == [q \in linking |->
                      BigMulSmall(pr.num[q], L \div Cardinality(nrm[q]))]
    IN  BigAdd(BigMulSmall(pr.den, (d[2] - d[1]) * L),
               BigMulSmall(BigSum(shares, linking), d[1] * NumPages(nrm)))

RECURSIVE SameFraction(_, _, _, _, _, _)
\* a/ad = b/bd, for ad = bd * s^j with j <= fuel
SameFraction(a, ad, b, bd, s, fuel) ==
    IF ad = bd THEN a = b
    ELSE IF fuel = 0 THEN FALSE
    ELSE SameFraction(a, ad, BigMulSmall(b, s), BigMulSmall(bd, s), s, fuel - 1)

\* C9: every pass of the loop of iterate_pagerank gives every page p the rank
\* (1-d)/N + d * sum of rank(q)/outdegree(q) over the pages q linking to p,
\* with every rank(q) the rank before the pass.
C9_SynchronousUpdate ==
    [][(Iterating /\ pc = "loop")
        => \A p \in DOMAIN norm :
              SameFraction(page_rank'.num[p], page_rank'.den,
                           C9_Recurrence(page_rank, norm, damping_factor, p),
                           BigMulSmall(page_rank.den,
                                       Scale(norm, damping_factor)),
                           Scale(norm, damping_factor), NumPages(norm))]_vars

\* in the loop after two passes, with ranks that differ between pages
C9_Witness ==
    /\ Iterating /\ pc = "loop" /\ prev_diffs # << >>
    /\ \E p, q \in DOMAIN norm : page_rank.num[p] # page_rank.num[q]

\* C10: for a damping factor in (0,1) and n >= 1, sample_pagerank counts the
\* starting page as the first of the n samples (its counter starts at 1, all
\* others at 0) and then takes exactly n - 1 transition steps, each adding 1
\* to the counter of the page drawn.
C10_StartCountedThenNMinusOneSteps ==
    (Sampling /\ ValidDamping(damping_factor) /\ n >= 1)
    => /\ (pc = "loop" /\ i = 0)
          => sample = [p \in DOMAIN corpus |-> IF p = page THEN 1 ELSE 0]
       /\ pc = "loop" => IntSum(sample, DOMAIN sample) = 1 + i
       /\ pc = "done" => i = n - 1

====
